---- MODULE Spec2Model ----
(***************************************************************************)
(* Model of package logger (src/logger/logger.go): a process-wide zap      *)
(* logger guarded by one zap.AtomicLevel, the leveled emit functions, the  *)
(* string level parser SetLogLevel and the environment-driven Init.        *)
(*                                                                         *)
(* Strings that the code inspects (level names, LOG_LEVEL) are sequences   *)
(* of one-character strings, so that strings.ToLower and the switch over   *)
(* the lowered text are computed rather than assumed.  Log messages are    *)
(* opaque and are TLA+ strings.  An output line is the record of the JSON  *)
(* keys level, msg and the extra fields; timestamp and caller are produced *)
(* by the encoder for every line and carry no state of this package.       *)
(***************************************************************************)
EXTENDS Integers, Sequences, FiniteSets, TLC

\* ------------------------------------------------------------------ bounds
\* Number of calls (and environment changes) made in one sequential run.
MaxCalls == 3
\* Number of goroutines in the concurrent specification, one call each.
NProcs == 3

\* --------------------------------------------------------------- severities
DebugLevel == -1
InfoLevel == 0
WarnLevel == 1
ErrorLevel == 2
DPanicLevel == 3
PanicLevel == 4
FatalLevel == 5

Levels == DebugLevel..FatalLevel

\* ------------------------------------------------------------------ strings
UpperChars == <<"A","B","C","D","E","F","G","H","I","J","K","L","M",
                "N","O","P","Q","R","S","T","U","V","W","X","Y","Z">>
LowerChars == <<"a","b","c","d","e","f","g","h","i","j","k","l","m",
                "n","o","p","q","r","s","t","u","v","w","x","y","z">>

\* The ASCII case tables: upper-case letter to lower-case letter and back.
LowerOf == [c \in {UpperChars[i] : i \in 1..26} |->
               LowerChars[CHOOSE i \in 1..26 : UpperChars[i] = c]]
UpperOf == [c \in {LowerChars[i] : i \in 1..26} |->
               UpperChars[CHOOSE i \in 1..26 : LowerChars[i] = c]]

\* A lowering that only knows the letters 'A'..'F'.
ToLowerCharPartial(c) ==
    IF c \in {UpperChars[i] : i \in 1..6} THEN LowerOf[c] ELSE c

\* strings.ToLower on one character: 'A'..'Z' become 'a'..'z', every other
\* character of the inputs used here is left as it is.
ToLowerChar(c) == IF c \in DOMAIN LowerOf THEN LowerOf[c] ELSE c

ToUpperChar(c) == IF c \in DOMAIN UpperOf THEN UpperOf[c] ELSE c

\* strings.ToLower / bytes.ToLower
ToLower(s) == [i \in 1..Len(s) |-> ToLowerChar(s[i])]

S_debug == <<"d","e","b","u","g">>
S_info == <<"i","n","f","o">>
S_warn == <<"w","a","r","n">>
S_warning == <<"w","a","r","n","i","n","g">>
S_error == <<"e","r","r","o","r">>
S_dpanic == <<"d","p","a","n","i","c">>
S_panic == <<"p","a","n","i","c">>
S_fatal == <<"f","a","t","a","l">>
S_empty == <<>>

S_DEBUG == <<"D","E","B","U","G">>
S_INFO == <<"I","N","F","O">>
S_WARN == <<"W","A","R","N">>
S_ERROR == <<"E","R","R","O","R">>
S_DPANIC == <<"D","P","A","N","I","C">>
S_PANIC == <<"P","A","N","I","C">>
S_FATAL == <<"F","A","T","A","L">>

\* zapcore.Level.String(), as called by atomicLevel.String() and by the
\* encoder for the "level" key.
LevelString(l) ==
    CASE l = DebugLevel -> S_debug
      [] l = InfoLevel -> S_info
      [] l = WarnLevel -> S_warn
      [] l = ErrorLevel -> S_error
      [] l = DPanicLevel -> S_dpanic
      [] l = PanicLevel -> S_panic
      [] l = FatalLevel -> S_fatal
      [] OTHER -> <<"L","e","v","e","l","(",l,")">>

\* ------------------------------------------------------------------- errors
NoError == [isErr |-> FALSE, text |-> <<>>]

ErrPrefix == <<"i","n","v","a","l","i","d"," ","l","o","g"," ",
               "l","e","v","e","l"," ","s","t","r","i","n","g",":"," ">>

\* An error that does not say which string was rejected.
ErrorfAnonymous(level) == [isErr |-> TRUE, text |-> ErrPrefix]

\* fmt.Errorf("invalid log level string: %s", level)
Errorf(level) == [isErr |-> TRUE, text |-> ErrPrefix \o level]

\* ------------------------------------------------------- the level parser
\* zapcore.Level.unmarshalText: the exact lower-case or upper-case names,
\* and the empty text for the zero value.
unmarshalText(text) ==
    CASE text \in {S_debug, S_DEBUG} -> [ok |-> TRUE, lvl |-> DebugLevel]
      [] text \in {S_info, S_INFO, S_empty} -> [ok |-> TRUE, lvl |-> InfoLevel]
      [] text \in {S_warn, S_WARN} -> [ok |-> TRUE, lvl |-> WarnLevel]
      [] text \in {S_error, S_ERROR} -> [ok |-> TRUE, lvl |-> ErrorLevel]
      [] text \in {S_dpanic, S_DPANIC} -> [ok |-> TRUE, lvl |-> DPanicLevel]
      [] text \in {S_panic, S_PANIC} -> [ok |-> TRUE, lvl |-> PanicLevel]
      [] text \in {S_fatal, S_FATAL} -> [ok |-> TRUE, lvl |-> FatalLevel]
      [] OTHER -> [ok |-> FALSE, lvl |-> InfoLevel]

\* newLevel.Set(level): the text as given, then its lower-cased form.
LevelSet(level) ==
    IF unmarshalText(level).ok THEN unmarshalText(level)
    ELSE unmarshalText(ToLower(level))

\* A parser whose "warning" alias maps one severity too high.
ParseLevelWarningOff(level) ==
    LET l == ToLower(level) IN
    CASE l = S_debug -> [err |-> NoError, newLevel |-> DebugLevel]
      [] l = S_info -> [err |-> NoError, newLevel |-> InfoLevel]
      [] l = S_warn -> [err |-> NoError, newLevel |-> WarnLevel]
      [] l = S_warning -> [err |-> NoError, newLevel |-> ErrorLevel]
      [] l = S_error -> [err |-> NoError, newLevel |-> ErrorLevel]
      [] l = S_dpanic -> [err |-> NoError, newLevel |-> DPanicLevel]
      [] l = S_panic -> [err |-> NoError, newLevel |-> PanicLevel]
      [] l = S_fatal -> [err |-> NoError, newLevel |-> FatalLevel]
      [] OTHER ->
           IF LevelSet(level).ok
           THEN [err |-> NoError, newLevel |-> LevelSet(level).lvl]
           ELSE [err |-> Errorf(level), newLevel |-> InfoLevel]

\* The switch of SetLogLevel: the level a string names, or the error.
ParseLevel(level) ==
    LET l == ToLower(level) IN
    CASE l = S_debug -> [err |-> NoError, newLevel |-> DebugLevel]
      [] l = S_info -> [err |-> NoError, newLevel |-> InfoLevel]
      [] l \in {S_warn, S_warning} -> [err |-> NoError, newLevel |-> WarnLevel]
      [] l = S_error -> [err |-> NoError, newLevel |-> ErrorLevel]
      [] l = S_dpanic -> [err |-> NoError, newLevel |-> DPanicLevel]
      [] l = S_panic -> [err |-> NoError, newLevel |-> PanicLevel]
      [] l = S_fatal -> [err |-> NoError, newLevel |-> FatalLevel]
      [] OTHER ->
           IF LevelSet(level).ok
           THEN [err |-> NoError, newLevel |-> LevelSet(level).lvl]
           ELSE [err |-> Errorf(level), newLevel |-> InfoLevel]

\* A store that keeps the low bit of the value it replaces.
StoreLevelTorn(old, new) == (new - (new % 2)) + (old % 2)

\* atomicLevel.SetLevel(newLevel): one atomic store of the whole value.
StoreLevel(old, new) == new

\* A failing SetLogLevel that stores the zero value of newLevel.
LevelAfterSetResets(old, r) == StoreLevel(old, r.newLevel)

\* The threshold SetLogLevel leaves: untouched on the error return.
LevelAfterSet(old, r) == IF r.err.isErr THEN old ELSE StoreLevel(old, r.newLevel)

\* ------------------------------------------------------------------ emitting
\* An enabler that lets only strictly higher severities through.
EnabledStrict(lvl, threshold) == lvl > threshold

\* AtomicLevel.Enabled(lvl)
Enabled(lvl, threshold) == lvl >= threshold

\* The JSON line the encoder writes for one entry.
Line(lvl, msg, fields) == [level |-> LevelString(lvl), msg |-> msg, fields |-> fields]

\* A logger that writes the entry at the threshold's level.
LogAtThreshold(lvl, threshold, o, msg, fields) ==
    IF lvl < DPanicLevel /\ ~Enabled(lvl, threshold) THEN o
    ELSE IF Enabled(lvl, threshold) THEN Append(o, Line(threshold, msg, fields))
    ELSE o

\* zap.Logger.Debug/Info/Warn/Error/Fatal: Logger.check returns early for a
\* disabled level below DPanic, the core's Check asks the level again, and
\* an enabled entry is written as one line.
Log(lvl, threshold, o, msg, fields) ==
    IF lvl < DPanicLevel /\ ~Enabled(lvl, threshold) THEN o
    ELSE IF Enabled(lvl, threshold) THEN Append(o, Line(lvl, msg, fields))
    ELSE o

\* ------------------------------------------------------------------- inputs
\* Every letter-casing of a lower-case word.
Casings(w) ==
    {[i \in 1..Len(w) |-> IF i \in U THEN ToUpperChar(w[i]) ELSE w[i]] :
        U \in SUBSET (1..Len(w))}

Aliases == {S_debug, S_info, S_warn, S_warning, S_error, S_dpanic, S_panic, S_fatal}

S_bogus == <<"b","o","g","u","s">>
S_notalevel == <<"n","o","t","-","a","-","l","e","v","e","l">>
S_WARNING == <<"W","A","R","N","I","N","G">>
S_Debug == <<"D","e","b","u","g">>

\* Strings no alias and no fallback accepts.
InvalidInputs == {S_bogus, S_notalevel, <<"w","a","r","n","s">>, <<"5">>,
                  <<"I","N","F","O"," ">>}

\* Arguments of SetLogLevel and values of LOG_LEVEL in the sequential runs.
LevelInputs == Aliases \cup {S_WARNING, S_Debug, S_empty, S_bogus, S_notalevel}

\* Arguments of SetLogLevel in the level-gate specification.
AllLevelInputs == (UNION {Casings(a) : a \in Aliases}) \cup InvalidInputs \cup {S_empty}

\* Message and fields of the emit calls.
EmitInputs == {[msg |-> "first message", fields |-> <<>>],
               [msg |-> "second message", fields |-> << <<"key", "value">> >>]}

\* -------------------------------------------------------------------- state
VARIABLES
    atomicLevel,   \* the level held by the zap.AtomicLevel
    out,           \* the lines written to the sink, oldest first
    env,           \* the value of LOG_LEVEL (empty when unset)
    exited,        \* the process has called os.Exit
    calls,         \* number of steps taken in a sequential run
    last,          \* the most recent call: its arguments, its result, and the
                   \* threshold and output it started from
    lastChange,    \* level of the most recent successful level change
    pc,            \* concurrent runs: where each goroutine is in its call
    loc,           \* concurrent runs: the locals of each goroutine's call
    written,       \* concurrent runs: levels handed to atomicLevel.SetLevel
    observed       \* concurrent runs: levels returned by loads of atomicLevel

seqVars == <<env, exited, calls, last, lastChange>>
concVars == <<pc, loc, written, observed>>
vars == <<atomicLevel, out, env, exited, calls, last, lastChange,
          pc, loc, written, observed>>

Procs == 1..NProcs

NoCall == [op |-> "none", level |-> <<>>, msg |-> "", fields |-> <<>>,
           err |-> NoError, ret |-> <<>>, pre |-> InfoLevel, o |-> <<>>]

NoLocals == [op |-> "none", lvl |-> InfoLevel, newLevel |-> InfoLevel,
             in |-> [msg |-> "", fields |-> <<>>]]

\* func init(): the level starts at Info and nothing is written yet.  The
\* environment the process is started in is arbitrary.
init ==
    /\ atomicLevel = InfoLevel
    /\ out = <<>>
    /\ env \in LevelInputs
    /\ exited = FALSE
    /\ calls = 0
    /\ last = NoCall
    /\ lastChange = InfoLevel
    /\ pc = [p \in Procs |-> "idle"]
    /\ loc = [p \in Procs |-> NoLocals]
    /\ written = {}
    /\ observed = {}

\* The same, in a process started without LOG_LEVEL.
initUnset == init /\ env = S_empty

Running == ~exited /\ calls < MaxCalls

\* ------------------------------------------------------- sequential calls
\* os.Setenv("LOG_LEVEL", v) / os.Unsetenv("LOG_LEVEL") by the host process.
Setenv(v) ==
    /\ Running
    /\ v # env
    /\ env' = v
    /\ calls' = calls + 1
    /\ UNCHANGED <<atomicLevel, out, exited, last, lastChange>>
    /\ UNCHANGED concVars

SetLogLevel(level) ==
    LET r == ParseLevel(level) IN
    /\ Running
    /\ atomicLevel' = LevelAfterSet(atomicLevel, r)
    /\ lastChange' = IF r.err.isErr THEN lastChange ELSE r.newLevel
    /\ last' = [NoCall EXCEPT !.op = "SetLogLevel", !.level = level, !.err = r.err,
                              !.pre = atomicLevel, !.o = out]
    /\ calls' = calls + 1
    /\ UNCHANGED <<out, env, exited>>
    /\ UNCHANGED concVars

GetLogLevel ==
    /\ Running
    /\ last' = [NoCall EXCEPT !.op = "GetLogLevel", !.ret = LevelString(atomicLevel),
                              !.pre = atomicLevel, !.o = out]
    /\ calls' = calls + 1
    /\ UNCHANGED <<atomicLevel, out, env, exited, lastChange>>
    /\ UNCHANGED concVars

Emit(op, lvl, in) ==
    /\ Running
    /\ out' = Log(lvl, atomicLevel, out, in.msg, in.fields)
    /\ last' = [NoCall EXCEPT !.op = op, !.msg = in.msg, !.fields = in.fields,
                              !.pre = atomicLevel, !.o = out]
    /\ calls' = calls + 1
    /\ UNCHANGED <<atomicLevel, env, exited, lastChange>>
    /\ UNCHANGED concVars

Debug(in) == Emit("Debug", DebugLevel, in)
Info(in) == Emit("Info", InfoLevel, in)
Warn(in) == Emit("Warn", WarnLevel, in)
Error(in) == Emit("Error", ErrorLevel, in)

\* A Fatal that writes its line and returns to the caller.
FatalReturns(in) == Emit("Fatal", FatalLevel, in)

\* log.Fatal: the entry is written, then the terminal hook calls os.Exit(1).
Fatal(in) ==
    /\ Running
    /\ out' = Log(FatalLevel, atomicLevel, out, in.msg, in.fields)
    /\ exited' = TRUE
    /\ last' = [NoCall EXCEPT !.op = "Fatal", !.msg = in.msg, !.fields = in.fields,
                              !.pre = atomicLevel, !.o = out]
    /\ calls' = calls + 1
    /\ UNCHANGED <<atomicLevel, env, lastChange>>
    /\ UNCHANGED concVars

MsgInvalid == "Invalid LOG_LEVEL provided, using default."
MsgSet == "Log level set from environment."
MsgNotSet == "Log level is not set, using default 'info'."

\* An Init that reads LOG_LEVEL on its first call and reuses that value on
\* later calls.
InitOnce ==
    LET levelStr == IF last.op = "Init" THEN last.level ELSE env
        r == ParseLevel(levelStr)
        lvl == LevelAfterSet(atomicLevel, r)
    IN
    /\ Running
    /\ IF levelStr # S_empty
       THEN /\ atomicLevel' = lvl
            /\ lastChange' = IF r.err.isErr THEN lastChange ELSE r.newLevel
            /\ out' = IF r.err.isErr
                      THEN Log(WarnLevel, lvl, out, MsgInvalid,
                               << <<"value", levelStr>>, <<"error", r.err.text>> >>)
                      ELSE Log(InfoLevel, lvl, out, MsgSet, << <<"level", levelStr>> >>)
       ELSE /\ out' = Log(InfoLevel, atomicLevel, out, MsgNotSet, <<>>)
            /\ UNCHANGED <<atomicLevel, lastChange>>
    /\ last' = [NoCall EXCEPT !.op = "Init", !.level = levelStr,
                              !.pre = atomicLevel, !.o = out]
    /\ calls' = calls + 1
    /\ UNCHANGED <<env, exited>>
    /\ UNCHANGED concVars

\* Init(): SetLogLevel on a non-empty LOG_LEVEL, then Warn or Info through
\* the logger at the threshold SetLogLevel left; Info alone when LOG_LEVEL
\* is empty.  Init returns nothing.
Init ==
    LET r == ParseLevel(env)
        lvl == LevelAfterSet(atomicLevel, r)
    IN
    /\ Running
    /\ IF env # S_empty
       THEN /\ atomicLevel' = lvl
            /\ lastChange' = IF r.err.isErr THEN lastChange ELSE r.newLevel
            /\ out' = IF r.err.isErr
                      THEN Log(WarnLevel, lvl, out, MsgInvalid,
                               << <<"value", env>>, <<"error", r.err.text>> >>)
                      ELSE Log(InfoLevel, lvl, out, MsgSet, << <<"level", env>> >>)
       ELSE /\ out' = Log(InfoLevel, atomicLevel, out, MsgNotSet, <<>>)
            /\ UNCHANGED <<atomicLevel, lastChange>>
    /\ last' = [NoCall EXCEPT !.op = "Init", !.level = env,
                              !.pre = atomicLevel, !.o = out]
    /\ calls' = calls + 1
    /\ UNCHANGED <<env, exited>>
    /\ UNCHANGED concVars

Next ==
    \/ \E v \in LevelInputs : Setenv(v)
    \/ \E level \in LevelInputs : SetLogLevel(level)
    \/ GetLogLevel
    \/ \E in \in EmitInputs : Debug(in)
    \/ \E in \in EmitInputs : Info(in)
    \/ \E in \in EmitInputs : Warn(in)
    \/ \E in \in EmitInputs : Error(in)
    \/ \E in \in EmitInputs : Fatal(in)
    \/ Init

Spec == init /\ [][Next]_vars

\* The level gate alone: SetLogLevel on every letter-casing of every alias
\* and on strings that name no level, and GetLogLevel.
NextLevel ==
    \/ \E level \in AllLevelInputs : SetLogLevel(level)
    \/ GetLogLevel

SpecLevel == initUnset /\ [][NextLevel]_vars

\* ------------------------------------------------------- concurrent calls
\* Each goroutine makes one call.  The steps are the accesses to the shared
\* atomicLevel and to the locked sink; everything between them is local.

\* SetLogLevel up to the store: the switch, and the error return.
SetLogLevelParse(p, level) ==
    LET r == ParseLevel(level) IN
    /\ pc[p] = "idle"
    /\ loc' = [loc EXCEPT ![p] = [NoLocals EXCEPT !.op = "SetLogLevel",
                                                   !.newLevel = r.newLevel]]
    /\ pc' = [pc EXCEPT ![p] = IF r.err.isErr THEN "done" ELSE "store"]
    /\ UNCHANGED <<atomicLevel, out, written, observed>>
    /\ UNCHANGED seqVars

\* atomicLevel.SetLevel(newLevel)
SetLogLevelStore(p) ==
    /\ pc[p] = "store"
    /\ atomicLevel' = StoreLevel(atomicLevel, loc[p].newLevel)
    /\ written' = written \cup {loc[p].newLevel}
    /\ pc' = [pc EXCEPT ![p] = "done"]
    /\ UNCHANGED <<out, loc, observed>>
    /\ UNCHANGED seqVars

\* GetLogLevel: one load of atomicLevel, formatted.
GetLogLevelLoad(p) ==
    /\ pc[p] = "idle"
    /\ observed' = observed \cup {atomicLevel}
    /\ loc' = [loc EXCEPT ![p] = [NoLocals EXCEPT !.op = "GetLogLevel",
                                                   !.lvl = atomicLevel]]
    /\ pc' = [pc EXCEPT ![p] = "done"]
    /\ UNCHANGED <<atomicLevel, out, written>>
    /\ UNCHANGED seqVars

\* Logger.check: the first load; a disabled level below DPanic returns.
LogCheck(p, lvl, in) ==
    /\ pc[p] = "idle"
    /\ observed' = observed \cup {atomicLevel}
    /\ loc' = [loc EXCEPT ![p] = [NoLocals EXCEPT !.op = "emit", !.lvl = lvl, !.in = in]]
    /\ pc' = [pc EXCEPT ![p] = IF lvl < DPanicLevel /\ ~Enabled(lvl, atomicLevel)
                               THEN "done" ELSE "core"]
    /\ UNCHANGED <<atomicLevel, out, written>>
    /\ UNCHANGED seqVars

\* The core's Check: the second load.
CoreCheck(p) ==
    /\ pc[p] = "core"
    /\ observed' = observed \cup {atomicLevel}
    /\ pc' = [pc EXCEPT ![p] = IF Enabled(loc[p].lvl, atomicLevel) THEN "write" ELSE "done"]
    /\ UNCHANGED <<atomicLevel, out, loc, written>>
    /\ UNCHANGED seqVars

\* The core's Write: one whole line under the sink's lock.
CoreWrite(p) ==
    /\ pc[p] = "write"
    /\ out' = Append(out, Line(loc[p].lvl, loc[p].in.msg, loc[p].in.fields))
    /\ pc' = [pc EXCEPT ![p] = "done"]
    /\ UNCHANGED <<atomicLevel, loc, written, observed>>
    /\ UNCHANGED seqVars

\* Levels set by the concurrent callers, and a string that names none.
ConcLevelInputs == {S_debug, S_WARNING, S_fatal, S_bogus}

EmitLevels == {DebugLevel, InfoLevel, WarnLevel, ErrorLevel}

NextConc ==
    \/ \E p \in Procs, level \in ConcLevelInputs : SetLogLevelParse(p, level)
    \/ \E p \in Procs : SetLogLevelStore(p)
    \/ \E p \in Procs : GetLogLevelLoad(p)
    \/ \E p \in Procs, lvl \in EmitLevels : LogCheck(p, lvl, [msg |-> "first message", fields |-> <<>>])
    \/ \E p \in Procs : CoreCheck(p)
    \/ \E p \in Procs : CoreWrite(p)

SpecConc == initUnset /\ [][NextConc]_vars

\* ------------------------------------------------------------ properties
EmitOps == {"Debug", "Info", "Warn", "Error"}

\* Severity and canonical name of the emit functions and of the aliases, as
\* the documentation lists them.
SeverityOfOp == [op \in EmitOps |->
    CASE op = "Debug" -> DebugLevel [] op = "Info" -> InfoLevel
      [] op = "Warn" -> WarnLevel [] op = "Error" -> ErrorLevel]

NameOfOp == [op \in EmitOps |->
    CASE op = "Debug" -> S_debug [] op = "Info" -> S_info
      [] op = "Warn" -> S_warn [] op = "Error" -> S_error]

SeverityOf == [a \in Aliases |->
    CASE a = S_debug -> DebugLevel [] a = S_info -> InfoLevel
      [] a \in {S_warn, S_warning} -> WarnLevel [] a = S_error -> ErrorLevel
      [] a = S_dpanic -> DPanicLevel [] a = S_panic -> PanicLevel
      [] a = S_fatal -> FatalLevel]

Canonical == [a \in Aliases |-> IF a = S_warning THEN S_warn ELSE a]

CasingsOf == [a \in Aliases |-> Casings(a)]

EndsWith(s, t) ==
    /\ Len(s) >= Len(t)
    /\ SubSeq(s, Len(s) - Len(t) + 1, Len(s)) = t

HasField(line, key, value) ==
    \E i \in 1..Len(line.fields) : line.fields[i] = <<key, value>>

\* C1: SetLogLevel on any letter-casing of debug, info, warn, warning, error,
\* dpanic, panic or fatal, from any threshold, returns no error, and the
\* GetLogLevel that follows returns the canonical lower-case name of the
\* severity ("warn" for both warn and warning).
C1_AliasSetsCanonicalLevel ==
    [][\A a \in Aliases :
         /\ (last'.op = "SetLogLevel" /\ last'.level \in CasingsOf[a])
               => (last'.err = NoError /\ LevelString(atomicLevel') = Canonical[a])
         /\ (last.op = "SetLogLevel" /\ last.level \in CasingsOf[a]
               /\ last'.op = "GetLogLevel")
               => last'.ret = Canonical[a]]_vars

\* "wArNiNg" was set while the threshold was Fatal.
C1_Witness ==
    /\ last.op = "SetLogLevel"
    /\ last.level = <<"w","A","r","N","i","N","g">>
    /\ last.pre = FatalLevel
    /\ atomicLevel = WarnLevel

\* C2: SetLogLevel on a string that is no alias and that the fallback parse
\* rejects returns an error whose text names the string, and leaves the
\* threshold, hence what GetLogLevel returns, as it was before the call.
C2_InvalidLeavesLevel ==
    (last.op = "SetLogLevel" /\ last.level \in InvalidInputs) =>
        /\ last.err.isErr
        /\ EndsWith(last.err.text, last.level)
        /\ Len(last.level) > 0
        /\ atomicLevel = last.pre
        /\ LevelString(atomicLevel) = LevelString(last.pre)

C2_Witness ==
    /\ last.op = "SetLogLevel"
    /\ last.level = S_notalevel
    /\ last.err.isErr
    /\ last.pre = ErrorLevel
    /\ atomicLevel = ErrorLevel

\* C3: at every threshold T, an emit call of severity L >= T appends exactly
\* one line carrying the call's message, and one of severity L < T leaves
\* the output as it was.
C3_EmitFiltered ==
    \A op \in EmitOps :
        last.op = op =>
            IF SeverityOfOp[op] >= last.pre
            THEN /\ Len(out) = Len(last.o) + 1
                 /\ SubSeq(out, 1, Len(last.o)) = last.o
                 /\ out[Len(out)].msg = last.msg
            ELSE out = last.o

\* Warn at threshold Warn writes its line.
C3_Witness ==
    /\ last.op = "Warn"
    /\ last.pre = WarnLevel
    /\ Len(out) = Len(last.o) + 1

\* C4: at threshold Debug every Debug/Info/Warn/Error call of one caller
\* appends one line at the end of the output, with the call's severity as
\* level and the call's message as msg: one line per call, in call order.
C4_DebugThresholdOneLinePerCall ==
    (last.op \in EmitOps /\ last.pre = DebugLevel) =>
        out = Append(last.o, [level |-> NameOfOp[last.op], msg |-> last.msg,
                              fields |-> last.fields])

\* Two calls at threshold Debug, two lines in the order of the calls.
C4_Witness ==
    /\ last.op = "Error"
    /\ last.pre = DebugLevel
    /\ Len(out) = 2
    /\ out[1].level = S_debug /\ out[1].msg = "first message"
    /\ out[2].level = S_error /\ out[2].msg = "second message"

ConfirmLine(value) == [level |-> S_info, msg |-> MsgSet, fields |-> << <<"level", value>> >>]

\* C5 as stated: Init with LOG_LEVEL set to a valid level name sets the
\* threshold to that level and writes the informational line that confirms
\* the level.
C5_Original ==
    (last.op = "Init" /\ last.level \in Aliases) =>
        /\ atomicLevel = SeverityOf[last.level]
        /\ out = Append(last.o, ConfirmLine(last.level))

\* C5: Init with LOG_LEVEL set to a valid level name sets the threshold to
\* that level; the confirming Info message is logged after the change, so
\* its line is written when the new level is debug or info and is filtered
\* out, leaving the output unchanged, when it is warn or above.
C5_InitValidSetsLevel ==
    (last.op = "Init" /\ last.level \in Aliases) =>
        /\ atomicLevel = SeverityOf[last.level]
        /\ out = IF SeverityOf[last.level] <= InfoLevel
                 THEN Append(last.o, ConfirmLine(last.level))
                 ELSE last.o

C5_Witness ==
    /\ last.op = "Init"
    /\ last.level = S_warning
    /\ atomicLevel = WarnLevel
    /\ out = last.o

WarnedAbout(value) ==
    /\ Len(out) = Len(last.o) + 1
    /\ SubSeq(out, 1, Len(last.o)) = last.o
    /\ out[Len(out)].level = S_warn
    /\ out[Len(out)].msg = MsgInvalid
    /\ HasField(out[Len(out)], "value", value)

\* C6 as stated: Init with an invalid LOG_LEVEL, from any threshold, keeps
\* the threshold, writes a warning line containing the value and returns
\* normally.
C6_Original ==
    (last.op = "Init" /\ last.level \in InvalidInputs) =>
        /\ atomicLevel = last.pre
        /\ ~exited /\ last.err = NoError
        /\ WarnedAbout(last.level)

\* C6: Init with an invalid LOG_LEVEL, from any threshold, keeps the
\* threshold and returns normally; the warning about the value goes through
\* the logger, so its line is written when the threshold is warn or lower
\* and nothing is written when the threshold is above warn.
C6_InitInvalidKeepsLevel ==
    (last.op = "Init" /\ last.level \in InvalidInputs) =>
        /\ atomicLevel = last.pre
        /\ ~exited /\ last.err = NoError
        /\ IF last.pre <= WarnLevel THEN WarnedAbout(last.level) ELSE out = last.o

C6_Witness ==
    /\ last.op = "Init"
    /\ last.level = S_bogus
    /\ last.pre = ErrorLevel
    /\ atomicLevel = ErrorLevel
    /\ out = last.o

DefaultLine == [level |-> S_info, msg |-> MsgNotSet, fields |-> <<>>]

\* C7 as stated: Init with LOG_LEVEL unset or empty keeps the threshold
\* (Info in a fresh process) and writes the informational line about the
\* default.
C7_Original ==
    (last.op = "Init" /\ last.level = S_empty) =>
        /\ atomicLevel = last.pre
        /\ (calls = 1 => atomicLevel = InfoLevel)
        /\ out = Append(last.o, DefaultLine)

\* C7: Init with LOG_LEVEL unset or empty keeps the threshold (Info in a
\* fresh process); the Info message about the default is written when the
\* threshold is debug or info, as it is in a fresh process, and is filtered
\* out when the threshold is above info.
C7_InitUnsetKeepsLevel ==
    (last.op = "Init" /\ last.level = S_empty) =>
        /\ atomicLevel = last.pre
        /\ (calls = 1 => atomicLevel = InfoLevel)
        /\ out = IF last.pre <= InfoLevel THEN Append(last.o, DefaultLine) ELSE last.o

C7_Witness ==
    /\ last.op = "Init"
    /\ last.level = S_empty
    /\ last.pre = PanicLevel
    /\ atomicLevel = PanicLevel
    /\ out = last.o

\* C8: at every threshold, Fatal included, a Fatal call appends its line and
\* terminates the process in the same call, and no step is taken by a
\* process that has terminated.
C8_FatalWritesThenExits ==
    [][/\ ~exited
       /\ last'.op = "Fatal" =>
             /\ exited'
             /\ out' = Append(out, [level |-> S_fatal, msg |-> last'.msg,
                                    fields |-> last'.fields])
       /\ exited' => last'.op = "Fatal"]_vars

\* Fatal called at threshold Fatal.
C8_Witness ==
    /\ exited
    /\ last.op = "Fatal"
    /\ last.pre = FatalLevel
    /\ Len(out) = Len(last.o) + 1

\* C9: under every interleaving of SetLogLevel, GetLogLevel and emit calls,
\* each value a load of the threshold returns is a severity and is the
\* initial Info or a value some SetLogLevel call stored.
C9_NoTornLevel ==
    /\ atomicLevel \in Levels
    /\ observed \subseteq Levels
    /\ observed \subseteq ({InfoLevel} \cup written)

\* Two setters have stored and a reader saw one of the stored levels.
C9_Witness ==
    /\ Cardinality(written) >= 2
    /\ FatalLevel \in observed
    /\ \E p \in Procs : pc[p] = "done" /\ loc[p].op = "GetLogLevel" /\ loc[p].lvl = FatalLevel

\* C10: in a sequential run the threshold is the level of the most recent
\* successful level change, Info if there was none: GetLogLevel reports it,
\* emit calls are filtered against it, and failed changes, reads and emits
\* leave it alone.
C10_ThresholdIsLastChange ==
    /\ atomicLevel = lastChange
    /\ last.op = "GetLogLevel" => last.ret = LevelString(lastChange)
    /\ last.op \in EmitOps =>
          (out # last.o) = (SeverityOfOp[last.op] >= lastChange)
    /\ (last.op \in EmitOps \cup {"GetLogLevel", "Fatal"}
          \/ (last.op = "SetLogLevel" /\ last.err.isErr)) => atomicLevel = last.pre

\* A failed change after a successful one.
C10_Witness ==
    /\ last.op = "SetLogLevel"
    /\ last.err.isErr
    /\ lastChange = ErrorLevel
    /\ atomicLevel = ErrorLevel

\* A step of Init: the only call that records "Init" and leaves LOG_LEVEL.
InitStep == last'.op = "Init" /\ env' = env /\ calls' = calls + 1

\* C11: Init reads LOG_LEVEL on every call.  An Init that directly follows
\* an Init, with LOG_LEVEL as it was, leaves the threshold the first call
\* left; an Init that follows an Init after LOG_LEVEL was changed to another
\* valid name leaves the level named by the value present at the second
\* call.
C11_InitRepeatable ==
    [][(last.op = "Init" /\ InitStep) =>
          /\ last.level = env => atomicLevel' = atomicLevel
          /\ (last.level # env /\ env \in Aliases)
                => atomicLevel' = SeverityOf[env]]_vars

\* Init ran with LOG_LEVEL=debug and wrote its confirmation, LOG_LEVEL was
\* changed to error, and Init ran again from threshold Debug.
C11_Witness ==
    /\ last.op = "Init"
    /\ out = <<ConfirmLine(S_debug)>>
    /\ last.o = out
    /\ last.pre = DebugLevel
    /\ last.level = S_error
    /\ env = S_error
    /\ atomicLevel = ErrorLevel

====
